---- MODULE Spec2Model ----
(***************************************************************************)
(* Model of the two signal-conditioning components of iptsd:               *)
(*   - contacts::stability::Stabilizer   (src/contacts/stability/          *)
(*     stabilizer.hpp): the sliding window of stored frames, the size and  *)
(*     movement correction and the temporal filter;                        *)
(*   - apps::daemon::StylusDevice        (src/apps/daemon/stylus.hpp): the *)
(*     stylus state, the predictor it drives and the events it emits.      *)
(*                                                                         *)
(* Numbers.  Contact means and sizes are floating point values in the      *)
(* source.  The model draws them from integer lattices on which every      *)
(* operation of the code (difference, hypot, scaling) is exact, so that    *)
(* integer arithmetic computes what real arithmetic computes; the one      *)
(* value outside the lattice that the code can produce, the NaN of 0/0,    *)
(* is modelled explicitly.                                                 *)
(***************************************************************************)
EXTENDS Integers, Sequences, FiniteSets, TLC

VARIABLES
    \* ---- Stabilizer (stabilizer.hpp) ----
    m_config,      \* Config<T> m_config
    m_frames,      \* std::deque<std::vector<Contact<T>>> m_frames
    \* ---- observation of the Stabilizer's calls ----
    s_op,          \* the last call: "new", "stabilize" or "reset"
    in_log,        \* the frames passed to stabilize since construction / reset()
                   \* (the newest Len(m_frames) of them), as passed
    out_log,       \* the frames returned by those calls (the newest two)
    \* ---- a second Stabilizer, fed the same calls (window 2 reference) ----
    ref_config,
    ref_frames,
    ref_out,
    \* ---- StylusDevice (stylus.hpp) ----
    m_enabled,           \* bool m_enabled
    m_active,            \* bool m_active
    m_last,              \* ipts::StylusData m_last
    m_predictor,         \* prediction::SinglePointerPredictor m_predictor
    m_prediction_target, \* milliseconds<usize> m_prediction_target
    m_uinput,            \* the UinputDevice: events pending and reports committed
    \* ---- observation of the StylusDevice's calls ----
    y_op,          \* the last call: "new", "update", "disable", "enable",
                   \* "enabled" or "active"
    y_emitted,     \* the events the last call emitted, in order
    y_pcalls,      \* the calls the last call made on the predictor, in order
    y_result,      \* what the last accessor call returned
    y_trace        \* the scripted scenario: one record per update made

stabVars   == <<m_config, m_frames, s_op, in_log, out_log>>
refVars    == <<ref_config, ref_frames, ref_out>>
stylusVars == <<m_enabled, m_active, m_last, m_predictor, m_prediction_target,
                m_uinput, y_op, y_emitted, y_pcalls, y_result, y_trace>>
vars       == <<m_config, m_frames, s_op, in_log, out_log,
                ref_config, ref_frames, ref_out,
                m_enabled, m_active, m_last, m_predictor, m_prediction_target,
                m_uinput, y_op, y_emitted, y_pcalls, y_result, y_trace>>

(***************************************************************************)
(* Bounds of the model.                                                    *)
(***************************************************************************)
MaxContacts == 2     \* contacts per frame in the filtering specification
MaxIndex    == 1     \* track indexes of the filtering specification: 1..MaxIndex
MaxTrack    == 2     \* track indexes of the correction specifications: 1..MaxTrack
MaxK        == 2     \* means are the lattice points k*(3,4), k in 0..MaxK
MaxFed      == 2     \* the predictor counts the samples fed since its reset up to MaxFed
MaxTrace    == 4     \* updates recorded by the specification of the contact strokes

(***************************************************************************)
(* Constants of StylusDevice.                                              *)
(***************************************************************************)
MAX_X == 9600
MAX_Y == 7200
MAX_P == 4096

(***************************************************************************)
(* Values.                                                                 *)
(***************************************************************************)
Abs(n) == IF n < 0 THEN -n ELSE n
Max(a, b) == IF a >= b THEN a ELSE b
Last(s) == s[Len(s)]
TheOne(S) == CHOOSE e \in S : TRUE       \* the value of a non-empty optional

\* Vector2<T>.  nan marks the vector whose components are NaN.
Vec(a, b) == [x |-> a, y |-> b, nan |-> FALSE]
NaNVec    == [x |-> 0, y |-> 0, nan |-> TRUE]

\* An optional is the empty set (std::nullopt) or a singleton.
NoIndex == {}
IndexesTo(n) == {NoIndex} \cup {{i} : i \in 1..n}

\* Means on the line through (0,0) and (3,4): all distances are multiples of 5.
Means == {Vec(3 * k, 4 * k) : k \in 0..MaxK}
Sizes == {Vec(1, 1), Vec(2, 3)}

Contact(i, m, s) == [index |-> i, mean |-> m, size |-> s]

\* contact.hpp (data model): no two contacts of a frame share an index.
DistinctIndexes(frame) ==
    \A i, j \in 1..Len(frame) :
        (i # j /\ frame[i].index # NoIndex) => frame[i].index # frame[j].index

FramesOf(C, n) ==
    {f \in UNION {[1..k -> C] : k \in 0..n} : DistinctIndexes(f)}

IndexesOf(frame) == {frame[i].index : i \in 1..Len(frame)} \ {NoIndex}
IndexSeq(frame) == [i \in 1..Len(frame) |-> frame[i].index]

(***************************************************************************)
(* Configurations (config.hpp): temporal_window, check_temporal_stability, *)
(* size_difference_threshold (optional), movement_limits (optional pair).  *)
(***************************************************************************)
Config(w, chk, thr, lim) ==
    [temporal_window |-> w, check_temporal_stability |-> chk,
     size_difference_threshold |-> thr, movement_limits |-> lim]

Windows    == 0..3
Thresholds == {{}, {1}, {2}}
Limits     == {{}, {<<0, 10>>}, {<<5, 5>>}, {<<5, 10>>}}

(***************************************************************************)
(* Contact<T>::find_in_frame(index, frame): the contact of the frame that  *)
(* carries the index, if any.                                              *)
(***************************************************************************)
find_in_frame(index, frame) ==
    LET hits == {i \in 1..Len(frame) : frame[i].index = {index}}
    IN  IF hits = {} THEN {}
        ELSE {frame[CHOOSE i \in hits : \A j \in hits : i <= j]}

\* std::hypot on the lattice: the root is exact (CHOOSE fails if it were not).
Hypot(dx, dy) ==
    LET n == dx * dx + dy * dy
    IN  CHOOSE r \in 0..n : r * r = n

\* Mutant of stabilize_size: a change of exactly the threshold is rejected.
stabilize_size_strict(cfg, current, last) ==
    IF cfg.size_difference_threshold = {} THEN current
    ELSE
        LET size_thresh == TheOne(cfg.size_difference_threshold)
            dx == Abs(current.size.x - last.size.x)
            dy == Abs(current.size.y - last.size.y)
        IN  IF dx < size_thresh /\ dy < size_thresh
            THEN current
            ELSE [current EXCEPT !.size = last.size]

(***************************************************************************)
(* Stabilizer::stabilize_size                                              *)
(***************************************************************************)
stabilize_size(cfg, current, last) ==
    IF cfg.size_difference_threshold = {} THEN current
    ELSE
        LET size_thresh == TheOne(cfg.size_difference_threshold)
            dx == Abs(current.size.x - last.size.x)
            dy == Abs(current.size.y - last.size.y)
        IN  IF dx <= size_thresh /\ dy <= size_thresh
            THEN current
            ELSE [current EXCEPT !.size = last.size]

\* Mutant of stabilize_movement: a contact moving too fast is clamped to the
\* upper limit instead of being pinned to its stored mean.
stabilize_movement_clamp(cfg, current, last) ==
    IF cfg.movement_limits = {} THEN current
    ELSE
        LET limit == TheOne(cfg.movement_limits)
        IN  IF current.mean.nan \/ last.mean.nan
            THEN [current EXCEPT !.mean = last.mean]
            ELSE
                LET dx == current.mean.x - last.mean.x
                    dy == current.mean.y - last.mean.y
                    distance == Hypot(dx, dy)
                IN  IF distance >= limit[1] /\ distance <= limit[2]
                    THEN IF distance = 0
                         THEN [current EXCEPT !.mean = NaNVec]
                         ELSE [current EXCEPT !.mean =
                                  Vec(current.mean.x - (limit[1] * dx) \div distance,
                                      current.mean.y - (limit[1] * dy) \div distance)]
                    ELSE IF distance > limit[2]
                         THEN [current EXCEPT !.mean =
                                  Vec(last.mean.x + (limit[2] * dx) \div distance,
                                      last.mean.y + (limit[2] * dy) \div distance)]
                         ELSE [current EXCEPT !.mean = last.mean]

(***************************************************************************)
(* Stabilizer::stabilize_movement.  limit.x() * (delta / distance) is      *)
(* computed as (limit.x() * delta) / distance, the same real number; with  *)
(* distance = 0 inside the band the quotient 0/0 is NaN on both axes, and  *)
(* a NaN operand makes both comparisons false.                             *)
(***************************************************************************)
stabilize_movement(cfg, current, last) ==
    IF cfg.movement_limits = {} THEN current
    ELSE
        LET limit == TheOne(cfg.movement_limits)
        IN  IF current.mean.nan \/ last.mean.nan
            THEN [current EXCEPT !.mean = last.mean]
            ELSE
                LET dx == current.mean.x - last.mean.x
                    dy == current.mean.y - last.mean.y
                    distance == Hypot(dx, dy)
                IN  IF distance >= limit[1] /\ distance <= limit[2]
                    THEN IF distance = 0
                         THEN [current EXCEPT !.mean = NaNVec]
                         ELSE [current EXCEPT !.mean =
                                  Vec(current.mean.x - (limit[1] * dx) \div distance,
                                      current.mean.y - (limit[1] * dy) \div distance)]
                    ELSE [current EXCEPT !.mean = last.mean]

\* Mutant of stabilize_contact: no early return for temporal_window < 2.
stabilize_contact_any_window(cfg, contact, frame) ==
    IF contact.index = NoIndex THEN contact
    ELSE
        LET wrapper == find_in_frame(TheOne(contact.index), frame)
        IN  IF wrapper = {} THEN contact
            ELSE
                LET last == TheOne(wrapper)
                    sized == IF cfg.size_difference_threshold # {}
                             THEN stabilize_size(cfg, contact, last)
                             ELSE contact
                IN  IF cfg.movement_limits # {}
                    THEN stabilize_movement(cfg, sized, last)
                    ELSE sized

(***************************************************************************)
(* Stabilizer::stabilize_contact                                           *)
(***************************************************************************)
stabilize_contact(cfg, contact, frame) ==
    IF contact.index = NoIndex THEN contact
    ELSE IF cfg.temporal_window < 2 THEN contact
    ELSE
        LET wrapper == find_in_frame(TheOne(contact.index), frame)
        IN  IF wrapper = {} THEN contact
            ELSE
                LET last == TheOne(wrapper)
                    sized == IF cfg.size_difference_threshold # {}
                             THEN stabilize_size(cfg, contact, last)
                             ELSE contact
                IN  IF cfg.movement_limits # {}
                    THEN stabilize_movement(cfg, sized, last)
                    ELSE sized

\* Mutants of check_temporal: only the newest stored frame is consulted;
\* a stored frame that is still empty counts as a match.
check_temporal_newest(frames, contact) ==
    IF contact.index = NoIndex THEN TRUE
    ELSE find_in_frame(TheOne(contact.index), frames[Len(frames)]) # {}

check_temporal_skip_empty(frames, contact) ==
    IF contact.index = NoIndex THEN TRUE
    ELSE \A i \in 1..Len(frames) :
            \/ frames[i] = <<>>
            \/ find_in_frame(TheOne(contact.index), frames[i]) # {}

(***************************************************************************)
(* Stabilizer::check_temporal, over the frames the deque holds when it is  *)
(* called.                                                                 *)
(***************************************************************************)
check_temporal(frames, contact) ==
    IF contact.index = NoIndex THEN TRUE
    ELSE \A i \in 1..Len(frames) :
            find_in_frame(TheOne(contact.index), frames[i]) # {}

\* Mutant of FilterEnabled: the flag is not consulted.
FilterEnabled_window_only(cfg) ==
    cfg.temporal_window >= 2

\* The guard of the filtering block of stabilize.
FilterEnabled(cfg) ==
    cfg.check_temporal_stability /\ cfg.temporal_window >= 2

\* Mutant of stabilize: the frame is copied into the history before it is
\* corrected.
stabilize_store_raw(cfg, frames, frame) ==
    LET corrected == [i \in 1..Len(frame) |->
                         stabilize_contact(cfg, frame[i], Last(frames))]
        popped == Tail(frames)
        kept == IF FilterEnabled(cfg)
                THEN SelectSeq(corrected, LAMBDA c : check_temporal(popped, c))
                ELSE corrected
    IN  [frames |-> Append(popped, frame), frame |-> kept]

\* Mutant of stabilize: the history receives the frame as returned, without
\* the contacts the filter removed.
stabilize_store_returned(cfg, frames, frame) ==
    LET corrected == [i \in 1..Len(frame) |->
                         stabilize_contact(cfg, frame[i], Last(frames))]
        popped == Tail(frames)
        kept == IF FilterEnabled(cfg)
                THEN SelectSeq(corrected, LAMBDA c : check_temporal(popped, c))
                ELSE corrected
    IN  [frames |-> Append(popped, kept), frame |-> kept]

\* Mutant of stabilize: the contacts are corrected against the oldest stored
\* frame instead of the newest.
stabilize_against_front(cfg, frames, frame) ==
    LET corrected == [i \in 1..Len(frame) |->
                         stabilize_contact(cfg, frame[i], Head(frames))]
        popped == Tail(frames)
        kept == IF FilterEnabled(cfg)
                THEN SelectSeq(corrected, LAMBDA c : check_temporal(popped, c))
                ELSE corrected
    IN  [frames |-> Append(popped, corrected), frame |-> kept]

(***************************************************************************)
(* Stabilizer::stabilize as a function of the configuration, the deque and *)
(* the frame passed in: the deque and the frame after the call.            *)
(***************************************************************************)
stabilize(cfg, frames, frame) ==
    LET corrected == [i \in 1..Len(frame) |->
                         stabilize_contact(cfg, frame[i], Last(frames))]
        popped == Tail(frames)                     \* pop_front
        nf == corrected                            \* clear, then copy the frame
        kept == IF FilterEnabled(cfg)
                THEN SelectSeq(nf, LAMBDA c : check_temporal(popped, c))
                ELSE corrected
    IN  [frames |-> Append(popped, nf), frame |-> kept]

\* Stabilizer::Stabilizer: max(temporal_window, 2) empty frames.
NewFrames(cfg) == [i \in 1..Max(cfg.temporal_window, 2) |-> <<>>]

\* Mutant of ResetFrames: the newest stored frame survives the reset.
ResetFrames_keep_newest(frames) ==
    [i \in 1..Len(frames) |-> IF i = Len(frames) THEN frames[i] ELSE <<>>]

\* Stabilizer::reset: every stored frame is cleared.
ResetFrames(frames) == [i \in 1..Len(frames) |-> <<>>]

\* The newest n entries of a log.
Newest(log, n) ==
    IF Len(log) <= n THEN log ELSE SubSeq(log, Len(log) - n + 1, Len(log))

(***************************************************************************)
(* StylusDevice: values.                                                   *)
(*                                                                         *)
(* x, y and pressure are normalised to [0,1] in the source; the model      *)
(* holds them in thousandths.  altitude and azimuth are radians in the     *)
(* source; the model holds them in degrees and draws them from multiples   *)
(* of 45 degrees, where the trigonometry is exact.                         *)
(***************************************************************************)
StylusData(prox, con, rub, pose) ==
    [proximity |-> prox, contact |-> con, button |-> pose.button, rubber |-> rub,
     timestamp |-> pose.timestamp, x |-> pose.x, y |-> pose.y,
     pressure |-> pose.pressure, altitude |-> pose.altitude,
     azimuth |-> pose.azimuth]

Pose(px, py, pp, ts, alt, azm, btn) ==
    [x |-> px, y |-> py, pressure |-> pp, timestamp |-> ts,
     altitude |-> alt, azimuth |-> azm, button |-> btn]

Poses == {Pose(0, 0, 0, 0, 0, 0, FALSE),
          Pose(333, 500, 250, 1, 45, 0, FALSE),
          Pose(1000, 667, 1000, 2, 45, 90, TRUE)}

Samples == {StylusData(prox, con, rub, pose) :
                prox \in BOOLEAN, con \in BOOLEAN, rub \in BOOLEAN, pose \in Poses}

\* A default-constructed ipts::StylusData: every flag false, every value 0.
DefaultData == StylusData(FALSE, FALSE, FALSE, Pose(0, 0, 0, 0, 0, 0, FALSE))

\* Prediction horizons, in milliseconds.
Targets == {0, 5}

(***************************************************************************)
(* The predictor (prediction/single-pointer-predictor.hpp), by its         *)
(* interface: reset(), update(position, pressure), predict(target) ->      *)
(* bool, position(), pressure().  Its state is the number of samples fed   *)
(* since the last reset and the outcome of the last predict: nothing, or   *)
(* the predicted position and pressure.  Whether predict succeeds, and     *)
(* with what, is the predictor's choice.                                   *)
(***************************************************************************)
Predicted(px, py, pp) == [x |-> px, y |-> py, pressure |-> pp]
Outcomes == {{}, {Predicted(340, 510, 260)}}

NewPredictor == [fed |-> 0, predicted |-> {}]
PredictorReset(p) == [fed |-> 0, predicted |-> {}]
PredictorUpdate(p, px, py, pp) ==
    [p EXCEPT !.fed = IF p.fed < MaxFed THEN p.fed + 1 ELSE MaxFed]
PredictorPredict(p, outcome) == [p EXCEPT !.predicted = outcome]

(***************************************************************************)
(* The UinputDevice (uinput-device.hpp), by its interface: emit(type,      *)
(* code, value) queues an event, and the event EV_SYN / SYN_REPORT commits *)
(* the queued events as one report.  The newest two reports are kept.      *)
(***************************************************************************)
Event(t, c, v) == [type |-> t, code |-> c, value |-> v]

NewUinput == [pending |-> <<>>, reports |-> <<>>]

Emit(dev, ev) ==
    IF ev.type = "EV_SYN" /\ ev.code = "SYN_REPORT"
    THEN [pending |-> <<>>,
          reports |-> Newest(Append(dev.reports, dev.pending), 2)]
    ELSE [dev EXCEPT !.pending = Append(dev.pending, ev)]

RECURSIVE EmitAll(_, _)
EmitAll(dev, events) ==
    IF events = <<>> THEN dev
    ELSE EmitAll(Emit(dev, Head(events)), Tail(events))

(***************************************************************************)
(* std::round(v * max) for v = n / 1000, n >= 0 or n < 0: to the nearest   *)
(* integer, halves away from zero.                                         *)
(***************************************************************************)
RoundDiv(num, den) ==
    IF num >= 0 THEN (2 * num + den) \div (2 * den)
    ELSE -((2 * (-num) + den) \div (2 * den))

Scaled(n, max) == RoundDiv(n * max, 1000)

(***************************************************************************)
(* StylusDevice::calculate_tilt.  Sines and cosines of the angles of the   *)
(* model, in units that the two arguments of each atan2 share (sqrt(2)/2   *)
(* for 45 degrees), and round(atan2(y, x) * 4500 / (pi/4)), the angle in   *)
(* hundredths of a degree, on the directions these produce.                *)
(***************************************************************************)
Sin(deg) ==
    CASE deg = 0 -> 0 [] deg = 45 -> 1 [] deg = 90 -> 1 [] deg = 180 -> 0
      [] deg = 270 -> -1
Cos(deg) ==
    CASE deg = 0 -> 1 [] deg = 45 -> 1 [] deg = 90 -> 0 [] deg = 180 -> -1
      [] deg = 270 -> 0

Atan2Centi(y, x) ==
    CASE y > 0 /\ x = y  -> 4500
      [] y > 0 /\ x = 0  -> 9000
      [] y > 0 /\ x = -y -> 13500

\* Mutant of calculate_tilt: the two axes take each other's azimuth factor.
calculate_tilt_swapped(altitude, azimuth) ==
    IF altitude <= 0 THEN <<0, 0>>
    ELSE
        LET sin_alt == Sin(altitude)
            sin_azm == Sin(azimuth)
            cos_alt == Cos(altitude)
            cos_azm == Cos(azimuth)
            tx == 9000 - Atan2Centi(cos_alt, sin_alt * sin_azm)
            ty == Atan2Centi(cos_alt, sin_alt * cos_azm) - 9000
        IN  <<tx, ty>>

calculate_tilt(altitude, azimuth) ==
    IF altitude <= 0 THEN <<0, 0>>
    ELSE
        LET sin_alt == Sin(altitude)
            sin_azm == Sin(azimuth)
            cos_alt == Cos(altitude)
            cos_azm == Cos(azimuth)
            tx == 9000 - Atan2Centi(cos_alt, sin_alt * cos_azm)
            ty == Atan2Centi(cos_alt, sin_alt * sin_azm) - 9000
        IN  <<tx, ty>>

\* StylusDevice::lift
lift ==
    <<Event("EV_KEY", "BTN_TOUCH", 0),
      Event("EV_KEY", "BTN_TOOL_PEN", 0),
      Event("EV_KEY", "BTN_TOOL_RUBBER", 0),
      Event("EV_KEY", "BTN_STYLUS", 0)>>

\* StylusDevice::sync
sync == <<Event("EV_SYN", "SYN_REPORT", 0)>>

Bit(b) == IF b THEN 1 ELSE 0

\* Mutant of PoseEvents: the tilt is emitted before the position.
PoseEvents_tilt_first(data, cx, cy, cp) ==
    LET tilt == calculate_tilt(data.altitude, data.azimuth)
    IN  <<Event("EV_KEY", "BTN_TOUCH", Bit(data.contact)),
          Event("EV_KEY", "BTN_TOOL_PEN", Bit(~data.rubber)),
          Event("EV_KEY", "BTN_TOOL_RUBBER", Bit(data.rubber)),
          Event("EV_KEY", "BTN_STYLUS", Bit(data.button)),
          Event("EV_ABS", "ABS_TILT_X", tilt[1]),
          Event("EV_ABS", "ABS_TILT_Y", tilt[2]),
          Event("EV_ABS", "ABS_X", Scaled(cx, MAX_X)),
          Event("EV_ABS", "ABS_Y", Scaled(cy, MAX_Y)),
          Event("EV_ABS", "ABS_PRESSURE", Scaled(cp, MAX_P)),
          Event("EV_ABS", "ABS_MISC", data.timestamp)>>

\* The events of the active branch of update, for the working position and
\* pressure cx, cy, cp.
PoseEvents(data, cx, cy, cp) ==
    LET tilt == calculate_tilt(data.altitude, data.azimuth)
    IN  <<Event("EV_KEY", "BTN_TOUCH", Bit(data.contact)),
          Event("EV_KEY", "BTN_TOOL_PEN", Bit(~data.rubber)),
          Event("EV_KEY", "BTN_TOOL_RUBBER", Bit(data.rubber)),
          Event("EV_KEY", "BTN_STYLUS", Bit(data.button)),
          Event("EV_ABS", "ABS_X", Scaled(cx, MAX_X)),
          Event("EV_ABS", "ABS_Y", Scaled(cy, MAX_Y)),
          Event("EV_ABS", "ABS_PRESSURE", Scaled(cp, MAX_P)),
          Event("EV_ABS", "ABS_MISC", data.timestamp),
          Event("EV_ABS", "ABS_TILT_X", tilt[1]),
          Event("EV_ABS", "ABS_TILT_Y", tilt[2])>>

\* Mutants of ActiveFor: a tool change does not lift; hovering does not
\* count as active.
ActiveFor_no_flip(last, data) == data.proximity

ActiveFor_contact(last, data) ==
    IF last.rubber # data.rubber THEN FALSE
    ELSE data.proximity /\ data.contact

\* update: the value m_active gets.
ActiveFor(last, data) ==
    IF last.rubber # data.rubber THEN FALSE ELSE data.proximity

\* Mutant of BeginsContact: the edge counts only for a stylus in proximity.
BeginsContact_in_proximity(last, data) ==
    ~last.contact /\ data.contact /\ data.proximity

\* update: the begin-of-contact edge that resets the predictor.
BeginsContact(last, data) == ~last.contact /\ data.contact

\* Mutant of RunsPrediction: the prediction runs for a hovering stylus too.
RunsPrediction_hover(target, data) == target > 0

\* update: whether the active branch runs the prediction.
RunsPrediction(target, data) == target > 0 /\ data.contact

(***************************************************************************)
(* StylusDevice::update as a function of the members, the sample and what  *)
(* the predictor answers: the members after the call, the events emitted   *)
(* and the calls made on the predictor.                                    *)
(***************************************************************************)
update(self, data, outcome) ==
    LET begins == BeginsContact(self.m_last, data)
        p0 == IF begins THEN PredictorReset(self.m_predictor)
              ELSE self.m_predictor
        active == ActiveFor(self.m_last, data)
        predicts == active /\ RunsPrediction(self.m_prediction_target, data)
        p1 == IF predicts
              THEN PredictorPredict(
                       PredictorUpdate(p0, data.x, data.y, data.pressure),
                       outcome)
              ELSE p0
        ok == predicts /\ outcome # {}
        cx == IF ok THEN TheOne(outcome).x ELSE data.x
        cy == IF ok THEN TheOne(outcome).y ELSE data.y
        cp == IF ok THEN TheOne(outcome).pressure ELSE data.pressure
        events == IF active THEN PoseEvents(data, cx, cy, cp) ELSE lift
        pcalls == (IF begins THEN <<"reset">> ELSE <<>>)
                  \o (IF predicts THEN <<"update", "predict">> ELSE <<>>)
                  \o (IF ok THEN <<"position", "pressure">> ELSE <<>>)
    IN  [m_enabled |-> self.m_enabled,
         m_active |-> active,
         m_last |-> data,
         m_predictor |-> p1,
         emitted |-> events \o sync,
         pcalls |-> pcalls]

\* Mutant of disable: m_active is left as it was.
disable_keep_active(self) ==
    [m_enabled |-> FALSE,
     m_active |-> self.m_active,
     m_last |-> self.m_last,
     m_predictor |-> self.m_predictor,
     emitted |-> lift \o sync,
     pcalls |-> <<>>]

\* StylusDevice::disable
disable(self) ==
    [m_enabled |-> FALSE,
     m_active |-> FALSE,
     m_last |-> self.m_last,
     m_predictor |-> self.m_predictor,
     emitted |-> lift \o sync,
     pcalls |-> <<>>]

\* Mutant of enable: the stylus resumes as active when the recorded sample
\* is in proximity.
enable_resume(self) ==
    [m_enabled |-> TRUE,
     m_active |-> self.m_last.proximity,
     m_last |-> self.m_last,
     m_predictor |-> self.m_predictor,
     emitted |-> <<>>,
     pcalls |-> <<>>]

\* StylusDevice::enable
enable(self) ==
    [m_enabled |-> TRUE,
     m_active |-> self.m_active,
     m_last |-> self.m_last,
     m_predictor |-> self.m_predictor,
     emitted |-> <<>>,
     pcalls |-> <<>>]

\* StylusDevice::enabled and StylusDevice::active
enabled(self) == self.m_enabled
active(self) == self.m_active

\* The members of the StylusDevice.
Self ==
    [m_enabled |-> m_enabled, m_active |-> m_active, m_last |-> m_last,
     m_predictor |-> m_predictor, m_prediction_target |-> m_prediction_target]

\* StylusDevice::StylusDevice, for a prediction target of the configuration.
NewStylus(targets) ==
    /\ m_enabled = TRUE
    /\ m_active = FALSE
    /\ m_last = DefaultData
    /\ m_predictor = NewPredictor
    /\ m_prediction_target \in targets
    /\ m_uinput = NewUinput
    /\ y_op = "new"
    /\ y_emitted = <<>>
    /\ y_pcalls = <<>>
    /\ y_result = FALSE
    /\ y_trace = <<>>

(***************************************************************************)
(* Actions of the Stabilizer.                                              *)
(***************************************************************************)
StabilizeCall(frame) ==
    LET r == stabilize(m_config, m_frames, frame)
    IN  /\ m_frames' = r.frames
        /\ s_op' = "stabilize"
        /\ in_log' = Newest(Append(in_log, frame), Len(m_frames))
        /\ out_log' = Newest(Append(out_log, r.frame), 2)
        /\ UNCHANGED m_config

ResetCall ==
    /\ m_frames' = ResetFrames(m_frames)
    /\ s_op' = "reset"
    /\ in_log' = <<>>
    /\ out_log' = <<>>
    /\ UNCHANGED m_config

Stabilize(frame) ==
    StabilizeCall(frame) /\ UNCHANGED refVars /\ UNCHANGED stylusVars

Reset == ResetCall /\ UNCHANGED refVars /\ UNCHANGED stylusVars

\* The same call made on both stabilizers.
StabilizeBoth(frame) ==
    LET r == stabilize(ref_config, ref_frames, frame)
    IN  /\ StabilizeCall(frame)
        /\ ref_frames' = r.frames
        /\ ref_out' = r.frame
        /\ UNCHANGED ref_config
        /\ UNCHANGED stylusVars

ResetBoth ==
    /\ ResetCall
    /\ ref_frames' = ResetFrames(ref_frames)
    /\ ref_out' = <<>>
    /\ UNCHANGED ref_config
    /\ UNCHANGED stylusVars

\* The frame passed to the last call and the frame it returned.
frame_in  == Last(in_log)
frame_out == Last(out_log)

(***************************************************************************)
(* Specification of the temporal filter: frames of up to MaxContacts       *)
(* contacts, tracked or not, at one position.                              *)
(***************************************************************************)
FilterContacts == {Contact(i, Vec(0, 0), Vec(1, 1)) : i \in IndexesTo(MaxIndex)}
FilterFrames   == FramesOf(FilterContacts, MaxContacts)
FilterConfigs  ==
    {Config(w, chk, {}, lim) : w \in Windows, chk \in BOOLEAN,
                               lim \in {{}, {<<5, 10>>}}}

InitStab(configs) ==
    /\ m_config \in configs
    /\ m_frames = NewFrames(m_config)
    /\ s_op = "new"
    /\ in_log = <<>>
    /\ out_log = <<>>
    /\ ref_config = m_config
    /\ ref_frames = <<>>
    /\ ref_out = <<>>
    /\ NewStylus({0})

Init == InitStab(FilterConfigs)

StabilizeFilter == \E frame \in FilterFrames : Stabilize(frame)

Next == StabilizeFilter \/ Reset

Spec == Init /\ [][Next]_vars

(***************************************************************************)
(* Specification of the corrections: frames of at most one contact, with   *)
(* every index, mean and size; windows of 2 and 3 frames.                  *)
(***************************************************************************)
MotionContacts ==
    {Contact(i, m, s) : i \in IndexesTo(MaxTrack), m \in Means, s \in Sizes}
MotionFrames  == {<<>>} \cup {<<c>> : c \in MotionContacts}
MotionConfigs ==
    {Config(w, chk, thr, lim) : w \in {2}, chk \in BOOLEAN,
                                 thr \in Thresholds, lim \in Limits}

InitMotion == InitStab(MotionConfigs)

StabilizeMotion == \E frame \in MotionFrames : Stabilize(frame)

NextMotion == StabilizeMotion \/ Reset

SpecMotion == InitMotion /\ [][NextMotion]_vars

(***************************************************************************)
(* Specification of two stabilizers fed the same calls: one configured     *)
(* with temporal_window 0 or 1, the other with temporal_window 2 and the   *)
(* same configuration otherwise.                                           *)
(***************************************************************************)
TwinConfigs ==
    {Config(w, chk, thr, lim) : w \in {0, 1}, chk \in BOOLEAN,
                                 thr \in {{}, {1}}, lim \in {{}, {<<5, 10>>}}}

InitTwin ==
    /\ m_config \in TwinConfigs
    /\ m_frames = NewFrames(m_config)
    /\ s_op = "new"
    /\ in_log = <<>>
    /\ out_log = <<>>
    /\ ref_config = [m_config EXCEPT !.temporal_window = 2]
    /\ ref_frames = NewFrames(ref_config)
    /\ ref_out = <<>>
    /\ NewStylus({0})

StabilizeTwin == \E frame \in MotionFrames : StabilizeBoth(frame)

NextTwin == StabilizeTwin \/ ResetBoth

SpecTwin == InitTwin /\ [][NextTwin]_vars


(***************************************************************************)
(* What a call leaves behind: the frame it stored (every contact of the    *)
(* frame passed in, after correction) and the frame that was m_frames      *)
(* .back() while the call ran.                                             *)
(***************************************************************************)
stored_frame == Last(m_frames)
back_frame   == m_frames[Len(m_frames) - 1]

Untracked(frame) == SelectSeq(frame, LAMBDA c : c.index = NoIndex)

\* The index was in the frames passed to the w-1 calls before the last one.
InPrecedingCalls(index, w) ==
    /\ Len(in_log) >= w
    /\ \A j \in (Len(in_log) - w + 1)..(Len(in_log) - 1) :
           index \in IndexesOf(in_log[j])

(***************************************************************************)
(* C1.  With check_temporal_stability and temporal_window = w >= 2, a      *)
(* contact carrying an index is in the returned frame if and only if its   *)
(* index was in the frame passed to each of the w-1 preceding calls since  *)
(* construction or reset(); contacts without an index are all returned.    *)
(***************************************************************************)
C1_TemporalWindow ==
    (s_op = "stabilize" /\ FilterEnabled(m_config)) =>
        /\ \A i \in 1..Len(frame_in) :
              frame_in[i].index # NoIndex =>
                  (frame_in[i].index \in IndexesOf(frame_out)
                     <=> InPrecedingCalls(frame_in[i].index,
                                          m_config.temporal_window))
        /\ IndexesOf(frame_out) \subseteq IndexesOf(frame_in)
        /\ Untracked(frame_out) = Untracked(frame_in)

\* A window of 3: the contact is reported on its third consecutive frame and
\* was withheld on its second.
C1_Witness ==
    /\ s_op = "stabilize" /\ FilterEnabled(m_config)
    /\ m_config.temporal_window = 3
    /\ Len(in_log) = 3 /\ Len(out_log) = 2
    /\ \E i \in 1..Len(frame_in) :
          /\ frame_in[i].index # NoIndex
          /\ frame_in[i].index \in IndexesOf(frame_out)
          /\ frame_in[i].index \in IndexesOf(in_log[2])
          /\ frame_in[i].index \notin IndexesOf(out_log[1])

(***************************************************************************)
(* C3 as claimed.  With check_temporal_stability, a contact whose index    *)
(* has no match in the frames stored before the call - every indexed       *)
(* contact of the first call after construction or reset() - is returned.  *)
(***************************************************************************)
C3_Claimed ==
    (s_op = "stabilize" /\ m_config.check_temporal_stability) =>
        \A i \in 1..Len(frame_in) :
            (/\ frame_in[i].index # NoIndex
             /\ \A j \in 1..(Len(in_log) - 1) :
                    frame_in[i].index \notin IndexesOf(in_log[j]))
            => frame_in[i].index \in IndexesOf(frame_out)

(***************************************************************************)
(* C3 as amended.  With check_temporal_stability and temporal_window =     *)
(* w >= 2, a contact whose index is missing from one of the w-1 stored     *)
(* frames consulted is removed: every indexed contact of the first w-1     *)
(* calls after construction or reset(), while those frames are still       *)
(* empty, and afterwards every indexed contact absent from one of the w-1  *)
(* preceding frames.  With temporal_window < 2 nothing is removed.         *)
(***************************************************************************)
C3_RemovedWithoutMatch ==
    (s_op = "stabilize" /\ m_config.check_temporal_stability) =>
        IF m_config.temporal_window >= 2
        THEN \A i \in 1..Len(frame_in) :
                (/\ frame_in[i].index # NoIndex
                 /\ \/ Len(in_log) < m_config.temporal_window
                    \/ \E j \in 1..(Len(in_log) - 1) :
                          frame_in[i].index \notin IndexesOf(in_log[j]))
                => frame_in[i].index \notin IndexesOf(frame_out)
        ELSE IndexSeq(frame_out) = IndexSeq(frame_in)

\* The first call after construction or reset() removes an indexed contact.
C3_Witness ==
    /\ s_op = "stabilize" /\ FilterEnabled(m_config)
    /\ Len(in_log) = 1
    /\ IndexesOf(frame_in) # {}
    /\ IndexesOf(frame_out) = {}
    /\ Len(frame_out) < Len(frame_in)

(***************************************************************************)
(* C6.  Without check_temporal_stability, for every temporal_window, the   *)
(* returned frame has the contacts of the frame passed in: as many, in     *)
(* the same order, with the same indexes.                                  *)
(***************************************************************************)
C6_NothingRemoved ==
    (s_op = "stabilize" /\ ~m_config.check_temporal_stability) =>
        IndexSeq(frame_out) = IndexSeq(frame_in)

\* A first call with an indexed contact and a window of 2 or more, which the
\* filter would have emptied.
C6_Witness ==
    /\ s_op = "stabilize" /\ ~m_config.check_temporal_stability
    /\ m_config.temporal_window >= 2
    /\ Len(in_log) = 1
    /\ IndexesOf(frame_in) # {}
    /\ IndexSeq(frame_out) = IndexSeq(frame_in)


(***************************************************************************)
(* The contact stored for position i of the frame passed to the last call, *)
(* and its match by index in the frame that was most recently stored when  *)
(* the call began (an optional).                                           *)
(***************************************************************************)
Result(i) == stored_frame[i]
Matched(i) ==
    IF frame_in[i].index = NoIndex THEN {}
    ELSE find_in_frame(TheOne(frame_in[i].index), back_frame)

\* The returned frame holds stored contacts, in their order.
ReturnedAreStored ==
    \E keep \in SUBSET (1..Len(stored_frame)) :
        frame_out = [k \in 1..Cardinality(keep) |->
                        stored_frame[CHOOSE i \in keep :
                            Cardinality({j \in keep : j < i}) = k - 1]]

(***************************************************************************)
(* C4.  Movement correction of a contact matched by index in the most      *)
(* recently stored frame, with movement_limits = (min, max), stored mean   *)
(* P, new mean Q and distance = |Q - P|: outside the band the result is P; *)
(* inside it (both bounds included) the result R is Q - min*(Q-P)/distance *)
(* = P + (distance-min)*(Q-P)/distance, stated without division as         *)
(* (Q-R)*distance = min*(Q-P) and (R-P)*distance = (distance-min)*(Q-P).   *)
(* At distance 0 inside the band that expression is 0/0, a NaN.            *)
(***************************************************************************)
C4_MovementCorrection ==
    (/\ s_op = "stabilize"
     /\ m_config.temporal_window >= 2
     /\ m_config.movement_limits # {}) =>
        /\ ReturnedAreStored
        /\ \A i \in 1..Len(frame_in) :
            (Matched(i) # {} /\ ~TheOne(Matched(i)).mean.nan) =>
                LET P == TheOne(Matched(i)).mean
                    Q == frame_in[i].mean
                    R == Result(i).mean
                    min == TheOne(m_config.movement_limits)[1]
                    max == TheOne(m_config.movement_limits)[2]
                    dx == Q.x - P.x
                    dy == Q.y - P.y
                    dd == dx * dx + dy * dy         \* distance squared
                IN  /\ (dd < min * min \/ dd > max * max) => R = P
                    /\ (dd >= min * min /\ dd <= max * max /\ dd > 0) =>
                           /\ ~R.nan
                           /\ \E d \in 1..dd :
                                /\ d * d = dd
                                /\ (Q.x - R.x) * d = min * dx
                                /\ (Q.y - R.y) * d = min * dy
                                /\ (R.x - P.x) * d = (d - min) * dx
                                /\ (R.y - P.y) * d = (d - min) * dy
                    /\ (dd = 0 /\ min = 0) => R.nan

\* A matched contact inside the band, moved by more than min: the result is
\* neither the stored nor the new mean, and it is returned.
C4_Witness ==
    /\ s_op = "stabilize"
    /\ m_config.temporal_window >= 2
    /\ m_config.movement_limits = {<<5, 10>>}
    /\ Len(frame_in) = 1
    /\ Matched(1) # {}
    /\ TheOne(Matched(1)).mean = Vec(0, 0)
    /\ frame_in[1].mean = Vec(6, 8)
    /\ Result(1).mean = Vec(3, 4)
    /\ frame_out = <<Result(1)>>

(***************************************************************************)
(* C5.  Size correction of a contact matched by index in the most recently *)
(* stored frame, with size_difference_threshold t: if the size changed by  *)
(* at most t on both axes (t included) the new size is kept; if it changed *)
(* by more than t on either axis the result is the stored size, on both    *)
(* axes.                                                                   *)
(***************************************************************************)
C5_SizeCorrection ==
    (/\ s_op = "stabilize"
     /\ m_config.temporal_window >= 2
     /\ m_config.size_difference_threshold # {}) =>
        \A i \in 1..Len(frame_in) :
            Matched(i) # {} =>
                LET prev == TheOne(Matched(i)).size
                    new == frame_in[i].size
                    t == TheOne(m_config.size_difference_threshold)
                    within == /\ Abs(new.x - prev.x) <= t
                              /\ Abs(new.y - prev.y) <= t
                IN  Result(i).size = IF within THEN new ELSE prev

\* A change of exactly t on one axis (and less on the other) is kept.
C5_Witness ==
    /\ s_op = "stabilize"
    /\ m_config.temporal_window >= 2
    /\ m_config.size_difference_threshold = {2}
    /\ Len(frame_in) = 1
    /\ Matched(1) # {}
    /\ TheOne(Matched(1)).size = Vec(1, 1)
    /\ frame_in[1].size = Vec(2, 3)
    /\ Result(1).size = Vec(2, 3)


(***************************************************************************)
(* C7 as claimed.  A stabilizer configured with temporal_window 0 or 1     *)
(* returns, on every call, the frame that a stabilizer configured with     *)
(* temporal_window 2 and the same configuration otherwise returns for the  *)
(* same sequence of calls.                                                 *)
(***************************************************************************)
C7_Claimed ==
    (s_op = "stabilize" /\ m_config.temporal_window < 2) =>
        frame_out = ref_out

(***************************************************************************)
(* C7 as amended.  A stabilizer configured with temporal_window 0 or 1     *)
(* holds two history frames but corrects and filters nothing: every call   *)
(* returns the frame as passed in and stores it as passed in.              *)
(***************************************************************************)
C7_SmallWindowPassesThrough ==
    (s_op = "stabilize" /\ m_config.temporal_window < 2) =>
        /\ Len(m_frames) = 2
        /\ frame_out = frame_in
        /\ stored_frame = frame_in

\* The window-2 stabilizer corrected a matched contact that the stabilizer
\* with the small window returned as passed in.
C7_Witness ==
    /\ s_op = "stabilize" /\ m_config.temporal_window < 2
    /\ ~m_config.check_temporal_stability
    /\ m_config.movement_limits # {}
    /\ Len(frame_in) = 1
    /\ Matched(1) # {}
    /\ frame_out = frame_in
    /\ Len(ref_out) = 1
    /\ ref_out[1].mean # frame_out[1].mean

(***************************************************************************)
(* C10 as claimed.  When the same frame is passed to two consecutive       *)
(* calls, the second returns the frame contents the first returned, for    *)
(* every threshold, movement limits and temporal filtering (stated for the *)
(* configurations in which no distance is divided by: movement_limits      *)
(* absent or with min > 0).                                                *)
(***************************************************************************)
SameFrameTwice ==
    /\ s_op = "stabilize"
    /\ Len(in_log) >= 2
    /\ in_log[Len(in_log)] = in_log[Len(in_log) - 1]

MinIsZero ==
    m_config.movement_limits # {} /\ TheOne(m_config.movement_limits)[1] = 0

C10_Claimed ==
    (SameFrameTwice /\ ~MinIsZero) => out_log[2] = out_log[1]

(***************************************************************************)
(* C10 as amended.  When the same frame is passed to two consecutive calls *)
(* and the first of them returned every contact of it (the temporal filter *)
(* withheld none), the second returns the same contacts with the same      *)
(* indexes and sizes, and with the same means - except that with           *)
(* movement_limits min = 0 the mean of a matched contact that did not move *)
(* is NaN (0/0) in the second.                                             *)
(***************************************************************************)
C10_StableFrameRepeats ==
    (SameFrameTwice /\ Len(out_log[1]) = Len(frame_in)) =>
        /\ IndexSeq(out_log[2]) = IndexSeq(out_log[1])
        /\ \A k \in 1..Len(out_log[2]) :
              /\ out_log[2][k].size = out_log[1][k].size
              /\ \/ out_log[2][k].mean = out_log[1][k].mean
                 \/ MinIsZero /\ out_log[2][k].mean.nan

\* The repeated frame is corrected against an older one, with the filter on:
\* both calls return the same corrected contact.
C10_Witness ==
    /\ SameFrameTwice
    /\ FilterEnabled(m_config)
    /\ Len(frame_in) = 1
    /\ Len(out_log[1]) = 1
    /\ out_log[2] = out_log[1]
    /\ ~frame_out[1].mean.nan
    /\ frame_out[1].mean # frame_in[1].mean
    /\ frame_out[1].size # frame_in[1].size


(***************************************************************************)
(* Actions of the StylusDevice.  The stabilizer is a separate object,      *)
(* left as constructed.                                                    *)
(***************************************************************************)
StabilizerIdle ==
    /\ UNCHANGED stabVars
    /\ UNCHANGED refVars

StylusCall(op, r) ==
    /\ m_enabled' = r.m_enabled
    /\ m_active' = r.m_active
    /\ m_last' = r.m_last
    /\ m_predictor' = r.m_predictor
    /\ m_uinput' = EmitAll(m_uinput, r.emitted)
    /\ y_op' = op
    /\ y_emitted' = r.emitted
    /\ y_pcalls' = r.pcalls
    /\ UNCHANGED m_prediction_target
    /\ StabilizerIdle

Update(data, outcome) ==
    /\ StylusCall("update", update(Self, data, outcome))
    /\ UNCHANGED <<y_result, y_trace>>

Disable ==
    /\ StylusCall("disable", disable(Self))
    /\ UNCHANGED <<y_result, y_trace>>

Enable ==
    /\ StylusCall("enable", enable(Self))
    /\ UNCHANGED <<y_result, y_trace>>

QueryEnabled ==
    /\ y_op' = "enabled"
    /\ y_result' = enabled(Self)
    /\ y_emitted' = <<>>
    /\ y_pcalls' = <<>>
    /\ UNCHANGED <<m_enabled, m_active, m_last, m_predictor,
                   m_prediction_target, m_uinput, y_trace>>
    /\ StabilizerIdle

QueryActive ==
    /\ y_op' = "active"
    /\ y_result' = active(Self)
    /\ y_emitted' = <<>>
    /\ y_pcalls' = <<>>
    /\ UNCHANGED <<m_enabled, m_active, m_last, m_predictor,
                   m_prediction_target, m_uinput, y_trace>>
    /\ StabilizerIdle

InitStylus ==
    /\ NewStylus(Targets)
    /\ m_config = Config(2, FALSE, {}, {})
    /\ m_frames = NewFrames(m_config)
    /\ s_op = "new"
    /\ in_log = <<>>
    /\ out_log = <<>>
    /\ ref_config = m_config
    /\ ref_frames = <<>>
    /\ ref_out = <<>>

UpdateAny == \E data \in Samples, outcome \in Outcomes : Update(data, outcome)

NextStylus ==
    UpdateAny \/ Disable \/ Enable \/ QueryEnabled \/ QueryActive

SpecStylus == InitStylus /\ [][NextStylus]_vars


(***************************************************************************)
(* The round-trip scenario: from a freshly constructed StylusDevice, four  *)
(* updates (hover, touch, touch and moved, out of proximity) with rubber   *)
(* constant.  y_trace records each update made.                            *)
(***************************************************************************)
Fits(k, last, data) ==
    CASE k = 1 -> data.proximity /\ ~data.contact
      [] k = 2 -> data.proximity /\ data.contact /\ data.rubber = last.rubber
      [] k = 3 -> /\ data.proximity /\ data.contact
                  /\ data.rubber = last.rubber
                  /\ <<data.x, data.y>> # <<last.x, last.y>>
      [] k = 4 -> ~data.proximity /\ data.rubber = last.rubber

ScriptedUpdate ==
    \E data \in Samples, outcome \in Outcomes :
        LET k == Len(y_trace) + 1
            r == update(Self, data, outcome)
        IN  /\ k <= 4
            /\ Fits(k, m_last, data)
            /\ StylusCall("update", r)
            /\ y_trace' = Append(y_trace,
                              [data |-> data,
                               report |-> Last(EmitAll(m_uinput, r.emitted).reports),
                               pcalls |-> r.pcalls])
            /\ UNCHANGED y_result

NextRoundTrip == ScriptedUpdate

SpecRoundTrip == InitStylus /\ [][NextRoundTrip]_vars

(***************************************************************************)
(* Reading reports.                                                        *)
(***************************************************************************)
Has(report, code) == \E i \in 1..Len(report) : report[i].code = code

Value(report, code) ==
    report[CHOOSE i \in 1..Len(report) : report[i].code = code].value

IsSet(report, code) == Has(report, code) /\ Value(report, code) = 1

Count(seq, x) == Cardinality({i \in 1..Len(seq) : seq[i] = x})

Tool(report) ==
    IF IsSet(report, "BTN_TOOL_PEN") THEN "pen"
    ELSE IF IsSet(report, "BTN_TOOL_RUBBER") THEN "rubber"
    ELSE "none"

LastReport == Last(m_uinput.reports)

(***************************************************************************)
(* C2: an update whose sample differs in rubber from the recorded sample   *)
(* emits the lift report and commits it, whatever proximity is; of two     *)
(* consecutive committed reports that both set a tool button, both set the *)
(* same one; no committed report sets both tool buttons.                   *)
(***************************************************************************)
NoToolSwap(reports) ==
    /\ \A i \in 1..Len(reports) :
           ~(IsSet(reports[i], "BTN_TOOL_PEN")
             /\ IsSet(reports[i], "BTN_TOOL_RUBBER"))
    /\ Len(reports) = 2 =>
           \/ Tool(reports[1]) = "none"
           \/ Tool(reports[2]) = "none"
           \/ Tool(reports[1]) = Tool(reports[2])

C2_ToolFlipLifts ==
    [][ /\ (y_op' = "update" /\ m_last'.rubber # m_last.rubber) =>
               /\ y_emitted' = lift \o sync
               /\ Last(m_uinput'.reports) = lift
               /\ m_uinput'.pending = <<>>
               /\ ~m_active'
        /\ NoToolSwap(m_uinput'.reports) ]_vars

C2_Witness ==
    /\ y_op = "update"
    /\ m_last.rubber /\ m_last.proximity /\ m_last.contact
    /\ Len(m_uinput.reports) = 2
    /\ Tool(m_uinput.reports[1]) = "pen"
    /\ IsSet(m_uinput.reports[1], "BTN_TOUCH")
    /\ m_uinput.reports[2] = lift

(***************************************************************************)
(* C9: disable sets m_enabled and m_active to false, emits the lift report *)
(* and commits it, and leaves m_last and the predictor as they were;       *)
(* enable sets m_enabled to true, emits nothing and leaves m_active,       *)
(* m_last and the predictor as they were; enabled() and active() return    *)
(* the flags, change no member and emit nothing.                           *)
(***************************************************************************)
C9_DisableEnableFrame ==
    [][ /\ y_op' = "disable" =>
               /\ m_enabled' = FALSE
               /\ m_active' = FALSE
               /\ y_emitted' = lift \o sync
               /\ Last(m_uinput'.reports) = lift
               /\ m_uinput'.pending = <<>>
               /\ m_last' = m_last
               /\ m_predictor' = m_predictor
               /\ y_pcalls' = <<>>
        /\ y_op' = "enable" =>
               /\ m_enabled' = TRUE
               /\ y_emitted' = <<>>
               /\ m_uinput' = m_uinput
               /\ m_active' = m_active
               /\ m_last' = m_last
               /\ m_predictor' = m_predictor
               /\ y_pcalls' = <<>>
        /\ y_op' \in {"enabled", "active"} =>
               /\ y_result' = (IF y_op' = "enabled" THEN m_enabled ELSE m_active)
               /\ y_emitted' = <<>>
               /\ y_pcalls' = <<>>
               /\ UNCHANGED <<m_enabled, m_active, m_last, m_predictor,
                              m_prediction_target, m_uinput>> ]_vars

C9_Witness ==
    /\ y_op = "disable"
    /\ ~m_enabled /\ ~m_active
    /\ m_last.proximity /\ m_last.contact
    /\ m_predictor.fed > 0
    /\ Len(m_uinput.reports) = 2
    /\ IsSet(m_uinput.reports[1], "BTN_TOUCH")
    /\ m_uinput.reports[2] = lift

(***************************************************************************)
(* C8: in the round-trip scenario, the report of sample 1 has the touch    *)
(* bit clear; it is the pose report with the bit of the sample's tool set  *)
(* and the sample's position when the sample's rubber is that of the       *)
(* recorded sample of the fresh StylusDevice (false), and the lift report  *)
(* otherwise.  The reports of samples 2 and 3 have the touch bit and the   *)
(* bit of the sample's tool set and carry the position, the sample's or    *)
(* the predicted one.  The predictor is reset once, in the update of       *)
(* sample 2.  The report of sample 4 is the lift report.                   *)
(***************************************************************************)
ToolCode(data) == IF data.rubber THEN "BTN_TOOL_RUBBER" ELSE "BTN_TOOL_PEN"
OtherToolCode(data) == IF data.rubber THEN "BTN_TOOL_PEN" ELSE "BTN_TOOL_RUBBER"

CarriesPosition(report, data) ==
    /\ Has(report, "ABS_X") /\ Has(report, "ABS_Y")
    /\ \/ /\ Value(report, "ABS_X") = Scaled(data.x, MAX_X)
          /\ Value(report, "ABS_Y") = Scaled(data.y, MAX_Y)
       \/ /\ m_prediction_target > 0
          /\ data.contact
          /\ \E o \in Outcomes \ {{}} :
                 /\ Value(report, "ABS_X") = Scaled(TheOne(o).x, MAX_X)
                 /\ Value(report, "ABS_Y") = Scaled(TheOne(o).y, MAX_Y)

TouchAndTool(k) ==
    /\ IsSet(y_trace[k].report, "BTN_TOUCH")
    /\ IsSet(y_trace[k].report, ToolCode(y_trace[k].data))
    /\ Value(y_trace[k].report, OtherToolCode(y_trace[k].data)) = 0
    /\ CarriesPosition(y_trace[k].report, y_trace[k].data)

ResetOnlyInSecond ==
    \A k \in 1..Len(y_trace) :
        Count(y_trace[k].pcalls, "reset") = (IF k = 2 THEN 1 ELSE 0)

RestOfRoundTrip ==
    /\ \A k \in 2..3 : k <= Len(y_trace) => TouchAndTool(k)
    /\ ResetOnlyInSecond
    /\ Len(y_trace) >= 4 => y_trace[4].report = lift

\* C8 as claimed: the report of sample 1 has no touch bit and no tool bit.
C8_Claimed ==
    /\ Len(y_trace) >= 1 =>
           /\ ~IsSet(y_trace[1].report, "BTN_TOUCH")
           /\ ~IsSet(y_trace[1].report, "BTN_TOOL_PEN")
           /\ ~IsSet(y_trace[1].report, "BTN_TOOL_RUBBER")
    /\ RestOfRoundTrip

C8_RoundTrip ==
    /\ Len(y_trace) >= 1 =>
           /\ ~IsSet(y_trace[1].report, "BTN_TOUCH")
           /\ IF y_trace[1].data.rubber = DefaultData.rubber
              THEN /\ IsSet(y_trace[1].report, ToolCode(y_trace[1].data))
                   /\ Value(y_trace[1].report, OtherToolCode(y_trace[1].data)) = 0
                   /\ CarriesPosition(y_trace[1].report, y_trace[1].data)
              ELSE y_trace[1].report = lift
    /\ RestOfRoundTrip

C8_Witness ==
    /\ Len(y_trace) = 4
    /\ ~y_trace[1].data.rubber
    /\ IsSet(y_trace[1].report, "BTN_TOOL_PEN")
    /\ y_trace[2].pcalls = <<"reset", "update", "predict", "position", "pressure">>
    /\ y_trace[3].pcalls = <<"update", "predict">>
    /\ y_trace[4].report = lift


(***************************************************************************)
(* Specification of reset(): a stabilizer is fed frames, then reset; at    *)
(* that moment a second stabilizer is constructed with the same            *)
(* configuration, and both are fed the same frames from then on.           *)
(* ref_frames = <<>> while there is no second stabilizer.                  *)
(***************************************************************************)
FreshContacts ==
    {Contact(i, m, Vec(1, 1)) : i \in IndexesTo(MaxIndex), m \in Means}
FreshFrames  == {<<>>} \cup {<<c>> : c \in FreshContacts}
FreshConfigs ==
    {Config(w, chk, {}, lim) : w \in 1..3, chk \in BOOLEAN,
                               lim \in {{}, {<<5, 10>>}}}

InitFresh == InitStab(FreshConfigs)

StabilizeBeforeReset ==
    \E frame \in FreshFrames : ref_frames = <<>> /\ Stabilize(frame)

ResetAndConstruct ==
    /\ ResetCall
    /\ ref_frames' = NewFrames(ref_config)
    /\ ref_out' = <<>>
    /\ UNCHANGED ref_config
    /\ UNCHANGED stylusVars

StabilizeAfterReset ==
    \E frame \in FreshFrames : ref_frames # <<>> /\ StabilizeBoth(frame)

NextFresh == StabilizeBeforeReset \/ ResetAndConstruct \/ StabilizeAfterReset

SpecFresh == InitFresh /\ [][NextFresh]_vars

(***************************************************************************)
(* C11.  reset() leaves max(temporal_window, 2) stored frames, all empty,  *)
(* and the configuration as constructed; every stabilize call after it     *)
(* returns the frame that a stabilizer newly constructed at the reset with *)
(* the same configuration returns, and the two hold the same history.      *)
(***************************************************************************)
C11_ResetIsFresh ==
    /\ s_op = "reset" =>
           /\ Len(m_frames) = Max(m_config.temporal_window, 2)
           /\ \A i \in 1..Len(m_frames) : m_frames[i] = <<>>
           /\ m_config = ref_config
    /\ (s_op = "stabilize" /\ ref_frames # <<>>) =>
           /\ frame_out = ref_out
           /\ m_frames = ref_frames
           /\ m_config = ref_config

\* The first call after a reset, with a tracked contact and movement limits:
\* both stabilizers return it as passed in, there being nothing to correct
\* it against.
C11_Witness ==
    /\ s_op = "stabilize" /\ ref_frames # <<>>
    /\ m_config.temporal_window >= 2
    /\ m_config.movement_limits # {}
    /\ ~m_config.check_temporal_stability
    /\ Len(in_log) = 1
    /\ Len(frame_in) = 1
    /\ frame_in[1].index # NoIndex
    /\ frame_in[1].mean = Vec(6, 8)
    /\ frame_out = frame_in
    /\ frame_out = ref_out


(***************************************************************************)
(* C12.  In an update that takes the active branch, the predictor is fed   *)
(* (update) and queried (predict) if and only if m_prediction_target > 0   *)
(* and the sample has contact; position() and pressure() are read if and   *)
(* only if that predict succeeded.  The report carries X, Y and pressure   *)
(* scaled from the predicted values if predict succeeded and from the      *)
(* sample's values otherwise, and it is emitted and committed in every     *)
(* case.  In the lift branch the predictor is neither fed nor queried.     *)
(***************************************************************************)
Called(name) == Count(y_pcalls, name) > 0

PredictSucceeded == Called("predict") /\ m_predictor.predicted # {}

WorkingPose ==
    IF PredictSucceeded THEN TheOne(m_predictor.predicted)
    ELSE [x |-> m_last.x, y |-> m_last.y, pressure |-> m_last.pressure]

C12_PredictionFallback ==
    y_op = "update" =>
        IF m_active
        THEN /\ Called("update") <=> (m_prediction_target > 0 /\ m_last.contact)
             /\ Called("predict") <=> Called("update")
             /\ Called("position") <=> PredictSucceeded
             /\ Called("pressure") <=> PredictSucceeded
             /\ Value(LastReport, "ABS_X") = Scaled(WorkingPose.x, MAX_X)
             /\ Value(LastReport, "ABS_Y") = Scaled(WorkingPose.y, MAX_Y)
             /\ Value(LastReport, "ABS_PRESSURE") = Scaled(WorkingPose.pressure, MAX_P)
             /\ y_emitted = LastReport \o sync
             /\ m_uinput.pending = <<>>
        ELSE /\ ~Called("update") /\ ~Called("predict")
             /\ ~Called("position") /\ ~Called("pressure")

\* A failed predict: the report carries the sample's values and is committed.
C12_Witness ==
    /\ y_op = "update" /\ m_active
    /\ m_prediction_target > 0 /\ m_last.contact
    /\ y_pcalls = <<"update", "predict">>
    /\ m_predictor.predicted = {}
    /\ m_last.x = 333
    /\ Value(LastReport, "ABS_X") = 3197
    /\ Value(LastReport, "ABS_Y") = 3600
    /\ Value(LastReport, "ABS_PRESSURE") = 1024
    /\ IsSet(LastReport, "BTN_TOUCH")


(***************************************************************************)
(* Specification of the tilt: updates with samples of every altitude and   *)
(* azimuth of the model, below, at and above the horizontal, hovering.     *)
(***************************************************************************)
Altitudes == {-45, 0, 45}
Azimuths  == {0, 90, 180, 270}

TiltSamples ==
    {StylusData(prox, FALSE, rub, Pose(333, 500, 0, 1, alt, azm, FALSE)) :
        prox \in BOOLEAN, rub \in BOOLEAN, alt \in Altitudes, azm \in Azimuths}

UpdateTilt == \E data \in TiltSamples : Update(data, {})

NextTilt == UpdateTilt

SpecTilt == InitStylus /\ [][NextTilt]_vars

(***************************************************************************)
(* C13.  The tilt is a function of altitude and azimuth alone: (0, 0) for  *)
(* every altitude <= 0; for altitude > 0, tx = 9000 - round(atan2(cos alt, *)
(* sin alt * cos azm) * 4500 / (pi/4)) and ty = round(atan2(cos alt,       *)
(* sin alt * sin azm) * 4500 / (pi/4)) - 9000, whose values at 45 degrees  *)
(* of altitude are (4500, 0), (0, -4500), (-4500, 0) and (0, 4500) for     *)
(* the azimuths 0, 90, 180 and 270 degrees.  A pose report carries these   *)
(* two values as ABS_TILT_X and ABS_TILT_Y.                                *)
(***************************************************************************)
ClosedFormTilt(altitude, azimuth) ==
    IF altitude <= 0 THEN <<0, 0>>
    ELSE CASE altitude = 45 /\ azimuth = 0   -> <<4500, 0>>
           [] altitude = 45 /\ azimuth = 90  -> <<0, -4500>>
           [] altitude = 45 /\ azimuth = 180 -> <<-4500, 0>>
           [] altitude = 45 /\ azimuth = 270 -> <<0, 4500>>

C13_Tilt ==
    /\ \A alt \in Altitudes, azm \in Azimuths :
           calculate_tilt(alt, azm) = ClosedFormTilt(alt, azm)
    /\ (y_op = "update" /\ m_active) =>
           /\ Value(LastReport, "ABS_TILT_X")
                  = ClosedFormTilt(m_last.altitude, m_last.azimuth)[1]
           /\ Value(LastReport, "ABS_TILT_Y")
                  = ClosedFormTilt(m_last.altitude, m_last.azimuth)[2]

\* A stylus leaning at 45 degrees towards azimuth 270 after one held below
\* the horizontal: the reports carry (0, 0) and then (0, 4500).
C13_Witness ==
    /\ y_op = "update" /\ m_active
    /\ m_last.altitude = 45 /\ m_last.azimuth = 270
    /\ Value(LastReport, "ABS_TILT_X") = 0
    /\ Value(LastReport, "ABS_TILT_Y") = 4500
    /\ Len(m_uinput.reports) = 2
    /\ Has(m_uinput.reports[1], "ABS_TILT_X")
    /\ Value(m_uinput.reports[1], "ABS_TILT_X") = 0
    /\ Value(m_uinput.reports[1], "ABS_TILT_Y") = 0


(***************************************************************************)
(* Specification of the frame effect: frames of no, one or two contacts,   *)
(* tracked or not, at two positions with two sizes; each contact carries a *)
(* further field that the stabilizer has no business with.                 *)
(***************************************************************************)
EffectContact(i, k) ==
    [index |-> i,
     mean |-> Vec(6 * k, 8 * k),
     size |-> IF k = 0 THEN Vec(1, 1) ELSE Vec(2, 3),
     orientation |-> 30 + k]

EffectContacts == {EffectContact(i, k) : i \in IndexesTo(MaxTrack), k \in {0, 1}}
EffectFrames   ==
    {f \in {<<>>} \cup {<<c>> : c \in EffectContacts}
                 \cup {<<a, b>> : a \in EffectContacts, b \in EffectContacts} :
        DistinctIndexes(f)}
EffectConfigs  ==
    {Config(w, chk, {1}, {<<5, 10>>}) : w \in {1, 2}, chk \in BOOLEAN}

InitEffect == InitStab(EffectConfigs)

StabilizeEffect == \E frame \in EffectFrames : Stabilize(frame)

NextEffect == StabilizeEffect \/ Reset

SpecEffect == InitEffect /\ [][NextEffect]_vars

(***************************************************************************)
(* C14.  stabilize keeps a contact for each contact passed in, in order,   *)
(* with the index and every field other than mean and size as passed in;   *)
(* mean and size are as passed in too unless the contact carries an index  *)
(* that the most recently stored frame holds.  The returned frame is an    *)
(* order-preserving subsequence of these contacts: no index is added,      *)
(* changed or moved.                                                       *)
(***************************************************************************)
C14_FrameEffect ==
    s_op = "stabilize" =>
        /\ Len(stored_frame) = Len(frame_in)
        /\ \A i \in 1..Len(frame_in) :
              /\ Result(i).index = frame_in[i].index
              /\ Result(i).orientation = frame_in[i].orientation
              /\ Matched(i) = {} =>
                     /\ Result(i).mean = frame_in[i].mean
                     /\ Result(i).size = frame_in[i].size
        /\ ReturnedAreStored
        /\ DistinctIndexes(frame_out)

\* Of two tracked contacts the first, new, is removed by the filter and the
\* second, known, is corrected in mean and size and returned.
C14_Witness ==
    /\ s_op = "stabilize" /\ FilterEnabled(m_config)
    /\ Len(frame_in) = 2
    /\ frame_in[1].index = {1} /\ Matched(1) = {}
    /\ frame_in[2].index = {2} /\ Matched(2) # {}
    /\ frame_in[2].mean = Vec(6, 8) /\ frame_in[2].size = Vec(2, 3)
    /\ Len(frame_out) = 1
    /\ frame_out[1].index = {2}
    /\ frame_out[1].mean = Vec(3, 4)
    /\ frame_out[1].size = Vec(1, 1)
    /\ frame_out[1].orientation = frame_in[2].orientation


(***************************************************************************)
(* C15.  A stabilize call leaves max(temporal_window, 2) stored frames:    *)
(* the frames stored before it without the oldest, in their order, and     *)
(* behind them the frame passed in with every contact corrected against    *)
(* the frame that was the newest - the contacts that the temporal filter   *)
(* kept out of the returned frame included.                                *)
(***************************************************************************)
C15_HistoryRotation ==
    [][ s_op' = "stabilize" =>
            LET n == Max(m_config.temporal_window, 2)
                passed == Last(in_log')
            IN  /\ Len(m_frames) = n
                /\ Len(m_frames') = n
                /\ \A i \in 1..(n - 1) : m_frames'[i] = m_frames[i + 1]
                /\ m_frames'[n] =
                       [i \in 1..Len(passed) |->
                           stabilize_contact(m_config, passed[i], m_frames[n])]
                /\ \A k \in 1..Len(Last(out_log')) :
                       \E i \in 1..Len(passed) :
                           Last(out_log')[k] = m_frames'[n][i] ]_vars

\* The second call of a window of 3: the contact is corrected against the
\* stored one, withheld from the returned frame and stored as corrected,
\* behind the frame of the first call.
C15_Witness ==
    /\ s_op = "stabilize" /\ FilterEnabled(m_config)
    /\ m_config.temporal_window = 3
    /\ Len(in_log) = 2
    /\ Len(frame_in) = 1
    /\ frame_in[1].mean = Vec(6, 8)
    /\ frame_out = <<>>
    /\ m_frames[1] = <<>>
    /\ m_frames[2] = in_log[1]
    /\ Len(m_frames[2]) = 1
    /\ m_frames[2][1].mean = Vec(0, 0)
    /\ Len(m_frames[3]) = 1
    /\ m_frames[3][1].index = frame_in[1].index
    /\ m_frames[3][1].mean = Vec(3, 4)


(***************************************************************************)
(* C16.  After every call, active() is true if and only if the report      *)
(* committed last is a pose report (one with axis values, not the lift     *)
(* report); after update(sample) it equals sample.proximity and            *)
(* (sample.rubber = the rubber of the sample recorded before), and after   *)
(* disable() it is false.                                                  *)
(***************************************************************************)
IsPoseReport(report) == Has(report, "ABS_X") /\ report # lift

PoseCommittedLast(dev) ==
    Len(dev.reports) > 0 /\ IsPoseReport(Last(dev.reports))

C16_ActiveIffPose ==
    [][ /\ active(Self)' <=> PoseCommittedLast(m_uinput')
        /\ y_op' = "update" =>
               (m_active' <=> (m_last'.proximity /\ m_last'.rubber = m_last.rubber))
        /\ y_op' = "disable" => ~m_active'
        /\ y_op' = "active" => (y_result' <=> PoseCommittedLast(m_uinput')) ]_vars

\* active() answers true after an update that followed a lift, and the
\* report committed last is a pose report.
C16_Witness ==
    /\ y_op = "active" /\ y_result = TRUE
    /\ m_active
    /\ Len(m_uinput.reports) = 2
    /\ m_uinput.reports[1] = lift
    /\ IsPoseReport(m_uinput.reports[2])
    /\ m_last.proximity


(***************************************************************************)
(* Specification of the contact strokes: up to MaxTrace calls of update,   *)
(* disable and enable, recorded in y_trace, the updates with every         *)
(* combination of proximity, contact and rubber and a prediction target    *)
(* above 0.                                                                *)
(***************************************************************************)
StrokeSamples ==
    {StylusData(prox, con, rub, Pose(333, 500, 250, 1, 45, 0, FALSE)) :
        prox \in BOOLEAN, con \in BOOLEAN, rub \in BOOLEAN}

Traced(op, data, r) ==
    /\ Len(y_trace) < MaxTrace
    /\ StylusCall(op, r)
    /\ y_trace' = Append(y_trace,
                      [op |-> op,
                       data |-> data,
                       emitted |-> r.emitted,
                       pcalls |-> r.pcalls,
                       enabled |-> m_enabled])
    /\ UNCHANGED y_result

TracedUpdate ==
    \E data \in StrokeSamples : Traced("update", data, update(Self, data, {}))

TracedDisable == Traced("disable", DefaultData, disable(Self))

TracedEnable == Traced("enable", DefaultData, enable(Self))

InitStrokes == InitStylus /\ m_prediction_target > 0

NextStrokes == TracedUpdate \/ TracedDisable \/ TracedEnable

SpecStrokes == InitStrokes /\ [][NextStrokes]_vars

(***************************************************************************)
(* C17.  An update resets the predictor if and only if the sample recorded *)
(* before it has contact = false and its own sample has contact = true,    *)
(* whatever proximity, rubber and the enabled flag are; the reset comes    *)
(* once and before the predictor is fed; every update records its sample   *)
(* as the last one.  Of two updates that feed the predictor with an update *)
(* of a sample without contact in between, the later one or an update      *)
(* between that sample and it resets the predictor.                        *)
(***************************************************************************)
UpdatesBefore(k) == {i \in 1..(k - 1) : y_trace[i].op = "update"}

RecordedBefore(k) ==
    IF UpdatesBefore(k) = {} THEN DefaultData
    ELSE y_trace[CHOOSE i \in UpdatesBefore(k) :
                     \A j \in UpdatesBefore(k) : j <= i].data

IsUpdate(k) == y_trace[k].op = "update"
ResetIn(k) == Count(y_trace[k].pcalls, "reset") > 0
FedIn(k) == Count(y_trace[k].pcalls, "update") > 0

C17_TwoStrokes ==
    /\ Len(y_trace) = 3
    /\ FedIn(1)
    /\ IsUpdate(2) /\ ~y_trace[2].data.contact
    /\ y_trace[3].pcalls = <<"reset", "update", "predict">>


(***************************************************************************)
(* C18.  Every update and every disable emits one report and its           *)
(* SYN_REPORT, the last event of the call and the only SYN_REPORT of it.   *)
(* The report is either the events BTN_TOUCH, BTN_TOOL_PEN,                *)
(* BTN_TOOL_RUBBER, BTN_STYLUS, ABS_X, ABS_Y, ABS_PRESSURE, ABS_MISC (the  *)
(* timestamp), ABS_TILT_X, ABS_TILT_Y in this order, or the four button    *)
(* events with value 0 and nothing else.  No event is pending after any    *)
(* call.                                                                   *)
(***************************************************************************)
Codes(events) == [i \in 1..Len(events) |-> events[i].code]
Types(events) == [i \in 1..Len(events) |-> events[i].type]

PoseOrder ==
    <<"BTN_TOUCH", "BTN_TOOL_PEN", "BTN_TOOL_RUBBER", "BTN_STYLUS",
      "ABS_X", "ABS_Y", "ABS_PRESSURE", "ABS_MISC", "ABS_TILT_X", "ABS_TILT_Y">>

LiftOrder == <<"BTN_TOUCH", "BTN_TOOL_PEN", "BTN_TOOL_RUBBER", "BTN_STYLUS">>

ButtonsThenAxes ==
    <<"EV_KEY", "EV_KEY", "EV_KEY", "EV_KEY",
      "EV_ABS", "EV_ABS", "EV_ABS", "EV_ABS", "EV_ABS", "EV_ABS">>

C18_OneReportPerCall ==
    /\ m_uinput.pending = <<>>
    /\ y_op \in {"update", "disable"} =>
           /\ Len(y_emitted) > 1
           /\ Last(y_emitted) = Event("EV_SYN", "SYN_REPORT", 0)
           /\ Count(Codes(y_emitted), "SYN_REPORT") = 1
           /\ Count(Types(y_emitted), "EV_SYN") = 1
           /\ y_emitted = LastReport \o sync
           /\ \/ /\ Codes(LastReport) = PoseOrder
                 /\ Types(LastReport) = ButtonsThenAxes
                 /\ y_op = "update"
                 /\ Value(LastReport, "ABS_MISC") = m_last.timestamp
              \/ /\ Codes(LastReport) = LiftOrder
                 /\ \A i \in 1..Len(LastReport) :
                        LastReport[i].type = "EV_KEY" /\ LastReport[i].value = 0

\* A pose report with every button set, committed after a lift report.
C18_Witness ==
    /\ y_op = "update"
    /\ Codes(y_emitted) = PoseOrder \o <<"SYN_REPORT">>
    /\ IsSet(LastReport, "BTN_TOUCH")
    /\ IsSet(LastReport, "BTN_TOOL_RUBBER")
    /\ IsSet(LastReport, "BTN_STYLUS")
    /\ Value(LastReport, "ABS_MISC") = 2
    /\ Len(m_uinput.reports) = 2
    /\ Codes(m_uinput.reports[1]) = LiftOrder


(***************************************************************************)
(* C19 as claimed.  While the stylus is disabled it stays lifted:          *)
(* enabled() = false implies active() = false, and an update made while    *)
(* enabled() = false emits the lift report, whatever its sample.           *)
(***************************************************************************)
C19_Claimed ==
    ~enabled(Self) =>
        /\ ~active(Self)
        /\ y_op = "update" => y_emitted = lift \o sync

\* What update does on a disabled stylus in proximity: a pose report, and
\* active() true with enabled() false.
C19_PoseWhileDisabled ==
    /\ y_op = "update"
    /\ ~enabled(Self) /\ active(Self)
    /\ IsPoseReport(LastReport)
    /\ Len(m_uinput.reports) = 2
    /\ m_uinput.reports[1] = lift

(***************************************************************************)
(* C20 as claimed.  The movement correction never divides by a distance of *)
(* zero: the mean stored and returned for a contact is a position, never   *)
(* the NaN of 0/0, for every movement_limits.                              *)
(***************************************************************************)
C20_Claimed ==
    s_op = "stabilize" =>
        /\ \A i \in 1..Len(stored_frame) : ~stored_frame[i].mean.nan
        /\ \A k \in 1..Len(frame_out) : ~frame_out[k].mean.nan

\* movement_limits with min = 0 and a matched contact that did not move:
\* the distance is 0, inside the band, and the mean returned is NaN.
C20_NaNMean ==
    /\ s_op = "stabilize"
    /\ MinIsZero
    /\ Len(frame_in) = 1
    /\ Matched(1) # {}
    /\ TheOne(Matched(1)).mean = frame_in[1].mean
    /\ Len(frame_out) = 1
    /\ frame_out[1].mean.nan

====
